---- MODULE Spec2Model ----
(***************************************************************************)
(* CrabTorch tensor core (src/src/tensor.rs): strided views over a shared  *)
(* reference-counted buffer.  A single thread holds a current tensor `t`,  *)
(* applies get / reshape / flatten / clone / deep_clone / Display to it,   *)
(* or drives an element iterator over it.  Buffers live in `heap`, keyed   *)
(* by identity, and are dropped when the last handle goes away (Rc).       *)
(* Sequences are 1-based here; dimension numbers reported to the caller    *)
(* are the 0-based ones of the source.                                     *)
(***************************************************************************)
EXTENDS Integers, Sequences, FiniteSets, TLC

VARIABLES
  heap,      \* live buffers by identity: Tensor::data, Rc<RefCell<Vec<T>>>
  t,         \* the tensor the caller holds: struct Tensor
  src,       \* &self of the last call
  res,       \* the last call: its name, argument and Result
  pc,        \* where the caller is: "idle" (between statements), "returned"
             \* (a call has returned, its result not yet taken), "iter" (an
             \* iterator is alive), "deep_clone" (inside its for loop),
             \* "failed" (main returned the Err) or "panicked"
  it,        \* the TensorIndexIterator of the running iteration
  yielded,   \* the offsets its next() has returned so far
  ret,       \* what its last next() returned
  calls,     \* how often next() was called on it
  new_data,  \* deep_clone's new_data
  out        \* what Display::fmt wrote

vars == <<heap, t, src, res, pc, it, yielded, ret, calls, new_data, out>>

\* ---------------------------------------------------------------- bounds
MaxRank == 3
MaxExt == 2
MaxLen == 5
ExtraCalls == 2

MaxCalls == MaxLen + ExtraCalls

Vals == {7}

\* the random source: one value per call, determined by its seed
Seeds == {0, 1}

rng_gen(seed, k) == seed + k

RECURSIVE SeqsUpTo(_, _)
SeqsUpTo(S, n) ==
  IF n = 0 THEN {<<>>}
  ELSE LET shorter == SeqsUpTo(S, n - 1)
       IN  shorter \cup {Append(s, x) : s \in {q \in shorter : Len(q) = n - 1}, x \in S}

Shapes == SeqsUpTo(0..MaxExt, MaxRank)

Indices == SeqsUpTo(0..MaxExt, MaxRank + 1)

Arrays == {[i \in 1..n |-> i] : n \in 0..MaxLen}

\* ------------------------------------------------------- pure arithmetic
RECURSIVE Product(_)
Product(s) == IF s = <<>> THEN 1 ELSE Head(s) * Product(Tail(s))

RECURSIVE Dot(_, _)
Dot(a, b) == IF a = <<>> THEN 0 ELSE Head(a) * Head(b) + Dot(Tail(a), Tail(b))

Suffix(s, k) == SubSeq(s, k + 1, Len(s))

\* -------------------------------------------------- get_size_and_strides
RECURSIVE StridesLoop(_, _, _, _)
StridesLoopPost(shape, i, size, strides) ==
  IF i = 0 THEN [size |-> size, strides |-> strides]
  ELSE StridesLoop(shape, i - 1, size * shape[i], [strides EXCEPT ![i] = size * shape[i]])

StridesLoop(shape, i, size, strides) ==
  IF i = 0 THEN [size |-> size, strides |-> strides]
  ELSE StridesLoop(shape, i - 1, size * shape[i], [strides EXCEPT ![i] = size])

get_size_and_strides(shape) ==
  StridesLoop(shape, Len(shape), 1, [k \in 1..Len(shape) |-> 0])

\* ---------------------------------------------------------------- errors
NoError == [kind |-> "none", value |-> 0, dim |-> 0]

TooManyDims == [kind |-> "index has too many dimensions", value |-> 0, dim |-> 0]

OutOfRange(v, d) == [kind |-> "index is out of range for dimension", value |-> v, dim |-> d]

SizeMismatch == [kind |-> "new shape cannot be of a different size", value |-> 0, dim |-> 0]

\* ----------------------------------------------------------------- Tensor
Tensor(data, base_index, size, shape, strides) ==
  [data |-> data, base_index |-> base_index, size |-> size,
   shape |-> shape, strides |-> strides]

NoTensor == Tensor(0, 0, 0, <<>>, <<>>)

rank(self) == Len(self.shape)

is_scalar(self) == rank(self) = 0

\* get_data_index: the loop with its early return, one dimension per call
RECURSIVE DataIndexLoop(_, _, _, _, _)
DataIndexLoopLax(self, index, tile, i, data_index) ==
  IF i > Len(index) THEN [ok |-> TRUE, value |-> data_index, err |-> NoError]
  ELSE IF index[i] > self.shape[i]
       THEN [ok |-> FALSE, value |-> 0, err |-> OutOfRange(index[i], i - 1)]
       ELSE DataIndexLoop(self, index, tile, i + 1,
                          data_index + index[i] * self.strides[i])

DataIndexLoop(self, index, tile, i, data_index) ==
  IF i > Len(index) THEN [ok |-> TRUE, value |-> data_index, err |-> NoError]
  ELSE IF tile
       THEN DataIndexLoop(self, index, tile, i + 1,
                          data_index + (index[i] % self.shape[i]) * self.strides[i])
       ELSE IF index[i] >= self.shape[i]
            THEN [ok |-> FALSE, value |-> 0, err |-> OutOfRange(index[i], i - 1)]
            ELSE DataIndexLoop(self, index, tile, i + 1,
                               data_index + index[i] * self.strides[i])

get_data_index(self, index, tile) ==
  IF Len(index) > rank(self)
  THEN [ok |-> FALSE, value |-> 0, err |-> TooManyDims]
  ELSE DataIndexLoop(self, index, tile, 1, self.base_index)

\* get: result of the call, [ok, err, tensor]
get_prefix_strides(self, index) ==
  LET r == get_data_index(self, index, FALSE)
  IN  IF ~r.ok THEN [ok |-> FALSE, err |-> r.err, tensor |-> NoTensor]
      ELSE LET new_shape == Suffix(self.shape, Len(index))
           IN  [ok |-> TRUE, err |-> NoError,
                tensor |-> Tensor(self.data, r.value,
                                  get_size_and_strides(new_shape).size,
                                  new_shape, SubSeq(self.strides, 1, Len(new_shape)))]

get_keep_base(self, index) ==
  LET r == get_data_index(self, index, FALSE)
  IN  IF ~r.ok THEN [ok |-> FALSE, err |-> r.err, tensor |-> NoTensor]
      ELSE LET new_shape == Suffix(self.shape, Len(index))
           IN  [ok |-> TRUE, err |-> NoError,
                tensor |-> Tensor(self.data, self.base_index,
                                  get_size_and_strides(new_shape).size,
                                  new_shape, Suffix(self.strides, Len(index)))]

get(self, index) ==
  LET r == get_data_index(self, index, FALSE)
  IN  IF ~r.ok THEN [ok |-> FALSE, err |-> r.err, tensor |-> NoTensor]
      ELSE LET new_shape == Suffix(self.shape, Len(index))
           IN  [ok |-> TRUE, err |-> NoError,
                tensor |-> Tensor(self.data, r.value,
                                  get_size_and_strides(new_shape).size,
                                  new_shape, Suffix(self.strides, Len(index)))]

reshape_reset_base(self, new_shape) ==
  LET ss == get_size_and_strides(new_shape)
  IN  IF ss.size # self.size
      THEN [ok |-> FALSE, err |-> SizeMismatch, tensor |-> NoTensor]
      ELSE [ok |-> TRUE, err |-> NoError,
            tensor |-> Tensor(self.data, 0, self.size, new_shape, ss.strides)]

reshape(self, new_shape) ==
  LET ss == get_size_and_strides(new_shape)
  IN  IF ss.size # self.size
      THEN [ok |-> FALSE, err |-> SizeMismatch, tensor |-> NoTensor]
      ELSE [ok |-> TRUE, err |-> NoError,
            tensor |-> Tensor(self.data, self.base_index, self.size, new_shape, ss.strides)]

flatten(self) == reshape(self, <<self.size>>)

\* ------------------------------------------------------------ constructors
from_iter(id, v) == Tensor(id, 0, Len(v), <<Len(v)>>, <<1>>)

from_array(id, arr) == Tensor(id, 0, Len(arr), <<Len(arr)>>, <<1>>)

from_shape(id, shape) ==
  LET ss == get_size_and_strides(shape)
  IN  Tensor(id, 0, ss.size, shape, ss.strides)

rand(id, shape) ==
  LET ss == get_size_and_strides(shape)
  IN  Tensor(id, 0, ss.size, shape, ss.strides)

\* the elements linspace hands to from_iter (n >= 1, integer element type)
linspace_values(x0, xend, n) ==
  LET dx == (xend - x0) \div n
  IN  [k \in 1..n |-> x0 + (k - 1) * dx]

\* ------------------------------------------------------ TensorIndexIterator
None == [some |-> FALSE, v |-> 0]

Some(v) == [some |-> TRUE, v |-> v]

TensorIndexIterator_new(tensor) ==
  [tensor |-> tensor, index |-> [d \in 1..rank(tensor) |-> 0],
   data_index |-> tensor.base_index, is_done |-> FALSE]

NoIter == [tensor |-> NoTensor, index |-> <<>>, data_index |-> 0, is_done |-> TRUE]

\* the body of `for d in (0..rank).rev()`, from dimension d (1-based) leftwards
RECURSIVE Advance(_, _)
AdvanceNoUndo(iter, d) ==
  IF d = 0 THEN iter
  ELSE LET stepped == iter.index[d] + 1
           moved   == iter.data_index + iter.tensor.strides[d]
       IN  IF stepped >= iter.tensor.shape[d]
           THEN Advance([iter EXCEPT
                           !.index[d] = 0,
                           !.data_index = moved,
                           !.is_done = IF d = 1 THEN TRUE ELSE @],
                        d - 1)
           ELSE [iter EXCEPT !.index[d] = stepped, !.data_index = moved]

Advance(iter, d) ==
  IF d = 0 THEN iter
  ELSE LET stepped == iter.index[d] + 1
           moved   == iter.data_index + iter.tensor.strides[d]
       IN  IF stepped >= iter.tensor.shape[d]
           THEN Advance([iter EXCEPT
                           !.index[d] = 0,
                           !.data_index = moved - iter.tensor.shape[d] * iter.tensor.strides[d],
                           !.is_done = IF d = 1 THEN TRUE ELSE @],
                        d - 1)
           ELSE [iter EXCEPT !.index[d] = stepped, !.data_index = moved]

\* TensorIndexIterator::next: the iterator after the call and what it returned
IndexNext(iter) ==
  IF iter.is_done THEN [it |-> iter, ret |-> None]
  ELSE [it |-> Advance(iter, rank(iter.tensor)), ret |-> Some(iter.data_index)]

\* TensorIterator::next: data[index] panics when index is outside the buffer
TensorIteratorNext(iter, data) ==
  LET r == IndexNext(iter)
  IN  IF r.ret.some /\ r.ret.v >= Len(data)
      THEN [it |-> r.it, ret |-> r.ret, panic |-> TRUE, item |-> None]
      ELSE [it |-> r.it, ret |-> r.ret, panic |-> FALSE,
            item |-> IF r.ret.some THEN Some(data[r.ret.v + 1]) ELSE None]

\* ----------------------------------------------------------------- Display
RECURSIVE Repeat(_, _)
Repeat(s, n) == IF n <= 0 THEN "" ELSE s \o Repeat(s, n - 1)

OuterAll(strides) == strides

Outer(strides) == SubSeq(strides, 1, Len(strides) - 1)

Hits(strides, n) == Cardinality({d \in 1..Len(strides) : n % strides[d] = 0})

\* one pass of `for i in 0..self.size`; acc = [text, marks, depth, panic]
RECURSIVE FmtLoop(_, _, _, _)
FmtLoop(self, data, i, acc) ==
  IF i >= self.size \/ acc.panic THEN acc
  ELSE LET open  == (IF i = 0 THEN 1 ELSE 0) + Hits(Outer(self.strides), i)
           close == (IF i + 1 = self.size THEN 1 ELSE 0) + Hits(Outer(self.strides), i + 1)
           depth == acc.depth + open - close
       IN  IF self.base_index + i >= Len(data)
           THEN [acc EXCEPT !.panic = TRUE]
           ELSE FmtLoop(self, data, i + 1,
                  [text  |-> acc.text \o Repeat("[", open)
                                      \o ToString(data[self.base_index + i + 1])
                                      \o (IF close = 0 THEN ", " ELSE "")
                                      \o Repeat("]", close)
                                      \o (IF close > 0 /\ depth > 0
                                          THEN "\n" \o Repeat(" ", depth) ELSE ""),
                   marks |-> Append(acc.marks,
                               [open |-> open, close |-> close, sep |-> (close = 0),
                                newline |-> (close > 0 /\ depth > 0),
                                indent |-> IF close > 0 /\ depth > 0 THEN depth ELSE 0,
                                depth |-> depth]),
                   depth |-> depth, panic |-> FALSE])

NoOutput == [text |-> "", marks |-> <<>>, depth |-> 0, panic |-> FALSE]

fmt(self, data) ==
  IF is_scalar(self)
  THEN IF self.base_index >= Len(data) THEN [NoOutput EXCEPT !.panic = TRUE]
       ELSE [NoOutput EXCEPT !.text = ToString(data[self.base_index + 1])]
  ELSE FmtLoop(self, data, 0, NoOutput)

\* -------------------------------------------------------------------- heap
FreshId(h) == CHOOSE i \in 1..(Cardinality(DOMAIN h) + 1) : i \notin DOMAIN h

Alloc(h, id, buf) == [i \in DOMAIN h \cup {id} |-> IF i = id THEN buf ELSE h[i]]

NoBuffers == [i \in {} |-> <<>>]

\* Rc: a buffer lives as long as some tensor handle refers to it
Collect(h, handles) == [i \in {x.data : x \in handles} \cap DOMAIN h |-> h[i]]

Call(op, arg, ok, err) == [op |-> op, arg |-> arg, ok |-> ok, err |-> err]

NoCall == Call("none", <<>>, TRUE, NoError)

\* -------------------------------------------------------------------- Init
\* main: let t = Tensor::from_array(&[1, 2, 3, 4])
Init ==
  /\ heap = [i \in {1} |-> <<1, 2, 3, 4>>]
  /\ t = from_array(1, <<1, 2, 3, 4>>)
  /\ src = NoTensor
  /\ res = NoCall
  /\ pc = "idle"
  /\ it = NoIter
  /\ yielded = <<>>
  /\ ret = None
  /\ calls = 0
  /\ new_data = <<>>
  /\ out = NoOutput

Quiet == /\ it' = NoIter
         /\ yielded' = <<>>
         /\ ret' = None
         /\ calls' = 0
         /\ new_data' = <<>>
         /\ out' = NoOutput

\* `t = <constructor>(..)`: a fresh buffer and its full-extent view; the
\* assignment drops the previous tensor, and with it the last handle of its
\* buffer, whose address is free again
Construct(op, buf, tensor) ==
  /\ t' = tensor
  /\ src' = NoTensor
  /\ heap' = Alloc(NoBuffers, tensor.data, buf)
  /\ res' = Call(op, <<>>, TRUE, NoError)
  /\ pc' = "returned"
  /\ Quiet

FromArray ==
  /\ pc = "idle"
  /\ \E arr \in Arrays : Construct("from_array", arr, from_array(FreshId(NoBuffers), arr))

FromIter ==
  /\ pc = "idle"
  /\ \E v \in Arrays : Construct("from_iter", v, from_iter(FreshId(NoBuffers), v))

FromShape ==
  /\ pc = "idle"
  /\ \E value \in Vals, shape \in Shapes :
       LET size == get_size_and_strides(shape).size
       IN  /\ size <= MaxLen
           /\ Construct("from_shape", [k \in 1..size |-> value],
                        from_shape(FreshId(NoBuffers), shape))

Scalar ==
  /\ pc = "idle"
  /\ \E value \in Vals : Construct("scalar", <<value>>, from_shape(FreshId(NoBuffers), <<>>))

Rand ==
  /\ pc = "idle"
  /\ \E shape \in Shapes, seed \in Seeds :
       LET size == get_size_and_strides(shape).size
       IN  /\ size <= MaxLen
           /\ Construct("rand", [k \in 1..size |-> rng_gen(seed, k)],
                        rand(FreshId(NoBuffers), shape))

\* n = 0 divides by T::from(0): an integer element type panics, a float one
\* goes on with an empty range
Linspace ==
  /\ pc = "idle"
  /\ \E x0 \in {1}, xend \in {5}, n \in 0..MaxLen :
       \/ /\ n > 0
          /\ Construct("linspace", linspace_values(x0, xend, n),
                       from_iter(FreshId(NoBuffers), linspace_values(x0, xend, n)))
       \/ /\ n = 0
          /\ Construct("linspace", <<>>, from_iter(FreshId(NoBuffers), <<>>))
       \/ /\ n = 0
          /\ pc' = "panicked"
          /\ res' = Call("linspace", <<>>, FALSE, NoError)
          /\ UNCHANGED <<heap, t, src, it, yielded, ret, calls, new_data, out>>

\* an operation of the current tensor that returns Result<Tensor, TensorError>
Apply(op, arg, r) ==
  /\ src' = t
  /\ t' = IF r.ok THEN r.tensor ELSE t
  /\ res' = Call(op, arg, r.ok, r.err)
  /\ pc' = "returned"
  /\ Quiet
  /\ UNCHANGED heap

Get ==
  /\ pc = "idle"
  /\ \E index \in Indices : Apply("get", index, get(t, index))

Reshape ==
  /\ pc = "idle"
  /\ \E new_shape \in Shapes : Apply("reshape", new_shape, reshape(t, new_shape))

Flatten ==
  /\ pc = "idle"
  /\ Apply("flatten", <<>>, flatten(t))

Clone ==
  /\ pc = "idle"
  /\ Apply("clone", <<>>, [ok |-> TRUE, err |-> NoError, tensor |-> t])

Display ==
  /\ pc = "idle"
  /\ LET o == fmt(t, heap[t.data])
     IN  /\ out' = o
         /\ pc' = IF o.panic THEN "panicked" ELSE "returned"
  /\ src' = t
  /\ res' = Call("fmt", <<>>, TRUE, NoError)
  /\ UNCHANGED <<heap, t, it, yielded, ret, calls, new_data>>

\* ---------------------------------------------------------------- iteration
IntoIter ==
  /\ pc = "idle"
  /\ pc' = "iter"
  /\ it' = TensorIndexIterator_new(t)
  /\ src' = t
  /\ res' = Call("into_iter", <<>>, TRUE, NoError)
  /\ UNCHANGED <<heap, t, yielded, ret, calls, new_data, out>>

IterNext ==
  /\ pc = "iter"
  /\ calls < MaxCalls
  /\ LET r == TensorIteratorNext(it, heap[it.tensor.data])
     IN  /\ it' = r.it
         /\ ret' = r.ret
         /\ yielded' = IF r.ret.some THEN Append(yielded, r.ret.v) ELSE yielded
         /\ pc' = IF r.panic THEN "panicked" ELSE "iter"
  /\ calls' = calls + 1
  /\ UNCHANGED <<heap, t, src, res, new_data, out>>

IterDrop ==
  /\ pc = "iter"
  /\ pc' = "idle"
  /\ res' = NoCall
  /\ src' = NoTensor
  /\ Quiet
  /\ UNCHANGED <<heap, t>>

\* --------------------------------------------------------------- deep_clone
DeepCloneBegin ==
  /\ pc = "idle"
  /\ pc' = "deep_clone"
  /\ it' = TensorIndexIterator_new(t)
  /\ src' = t
  /\ res' = Call("deep_clone", <<>>, FALSE, NoError)
  /\ UNCHANGED <<heap, t, yielded, ret, calls, new_data, out>>

\* one turn of `for v in self.clone()`
DeepClonePush ==
  /\ pc = "deep_clone"
  /\ calls < MaxCalls
  /\ LET r == TensorIteratorNext(it, heap[it.tensor.data])
     IN  /\ r.ret.some
         /\ it' = r.it
         /\ ret' = r.ret
         /\ yielded' = Append(yielded, r.ret.v)
         /\ pc' = IF r.panic THEN "panicked" ELSE "deep_clone"
         /\ new_data' = IF r.panic THEN new_data ELSE Append(new_data, r.item.v)
  /\ calls' = calls + 1
  /\ UNCHANGED <<heap, t, src, res, out>>

\* the iterator is exhausted: the copy is wrapped in a new tensor
DeepCloneReturn ==
  /\ pc = "deep_clone"
  /\ ~TensorIteratorNext(it, heap[it.tensor.data]).ret.some
  /\ LET ss == get_size_and_strides(src.shape)
         id == FreshId(heap)
     IN  /\ t' = Tensor(id, 0, ss.size, src.shape, ss.strides)
         /\ heap' = Alloc(heap, id, new_data)
  /\ res' = Call("deep_clone", <<>>, TRUE, NoError)
  /\ pc' = "returned"
  /\ it' = NoIter
  /\ ret' = None
  /\ calls' = calls + 1
  /\ UNCHANGED <<src, yielded, new_data, out>>

\* main: `let x = <call>?;` and `println!`: the caller takes the value out of
\* what the call returned and lets go of the operand; an Err makes main
\* return it
Let ==
  /\ pc = "returned"
  /\ \/ /\ res.ok
        /\ pc' = "idle"
        /\ src' = NoTensor
        /\ res' = NoCall
        /\ heap' = Collect(heap, {t})
        /\ Quiet
        /\ UNCHANGED t
     \/ /\ ~res.ok
        /\ pc' = "failed"
        /\ UNCHANGED <<heap, t, src, res, it, yielded, ret, calls, new_data, out>>

Next ==
  \/ Let
  \/ FromArray
  \/ FromIter
  \/ FromShape
  \/ Scalar
  \/ Rand
  \/ Linspace
  \/ Get
  \/ Reshape
  \/ Flatten
  \/ Clone
  \/ Display
  \/ IntoIter
  \/ IterNext
  \/ IterDrop
  \/ DeepCloneBegin
  \/ DeepClonePush
  \/ DeepCloneReturn

Spec == Init /\ [][Next]_vars

\* ------------------------------------------------------------- properties
AllPositive(shape) == \A d \in 1..Len(shape) : shape[d] >= 1

\* row-major multi-index of flat position k (last dimension fastest)
MultiIndex(shape, k) ==
  [d \in 1..Len(shape) |-> (k \div Product(Suffix(shape, d))) % shape[d]]

RowMajorOffset(x, k) == x.base_index + Dot(MultiIndex(x.shape, k), x.strides)

IsRowMajor(shape, strides) ==
  /\ Len(strides) = Len(shape)
  /\ Len(shape) > 0 => strides[Len(shape)] = 1
  /\ \A d \in 1..(Len(shape) - 1) : strides[d] = strides[d + 1] * shape[d + 1]

Iterating == it.tensor.data # 0

Min(a, b) == IF a < b THEN a ELSE b

\* C1: over a tensor of rank >= 1 with all extents >= 1 the index iterator
\* yields exactly size offsets and None on every later call, and the k-th
\* offset is base_index + sum_d idx_d(k) * strides[d] for the row-major
\* multi-index idx(k) of k.
C1_RowMajorTraversal ==
  (Iterating /\ rank(it.tensor) >= 1 /\ AllPositive(it.tensor.shape)) =>
    /\ Len(yielded) = Min(calls, it.tensor.size)
    /\ \A k \in 1..Len(yielded) : yielded[k] = RowMajorOffset(it.tensor, k - 1)
    /\ (calls \in 1..it.tensor.size) => ret = Some(yielded[calls])
    /\ (pc = "iter" /\ calls > it.tensor.size) => ret = None

C1_Witness ==
  /\ pc = "iter"
  /\ rank(it.tensor) = 3
  /\ it.tensor.size = 4
  /\ calls = it.tensor.size + 2
  /\ Len(yielded) = 4
  /\ ret = None

\* C2: over a rank-0 tensor the iterator yields exactly one offset, the
\* tensor's base_index, and returns None from the second call on.
C2_ScalarYieldsOnce ==
  (Iterating /\ rank(it.tensor) = 0) =>
    /\ Len(yielded) <= 1
    /\ calls >= 1 => yielded[1] = it.tensor.base_index
    /\ calls >= 2 => ret = None

\* C3: deep_clone terminates once it has copied size elements, never reads
\* outside the buffer, and returns a tensor of the same shape with
\* base_index 0, row-major strides and a new buffer of exactly size elements
\* holding the source's elements in traversal order.
C3_DeepClone ==
  /\ pc = "deep_clone" => /\ Len(new_data) <= src.size
                          /\ Len(new_data) = src.size => ~IndexNext(it).ret.some
  /\ ~(pc = "panicked" /\ res.op = "deep_clone")
  /\ (res.op = "deep_clone" /\ res.ok) =>
       /\ t.shape = src.shape
       /\ t.base_index = 0
       /\ IsRowMajor(t.shape, t.strides)
       /\ t.data # src.data
       /\ src.data \in DOMAIN heap
       /\ Len(heap[t.data]) = src.size
       /\ AllPositive(src.shape) =>
            \A k \in 1..src.size :
              heap[t.data][k] = heap[src.data][RowMajorOffset(src, k - 1) + 1]

\* C4: get fails exactly when the index is longer than the rank or some
\* supplied entry is >= its extent; the first is reported as the
\* dimensionality error, the second as the out-of-range error naming an
\* offending value and its dimension; a failed get produces no view and
\* leaves the tensor and its buffer as they were.
C4_Bad(T, index) ==
  {i \in 1..Min(Len(index), rank(T)) : index[i] >= T.shape[i]}

C4_State ==
  res.op = "get" =>
    /\ res.ok <=> ~(Len(res.arg) > rank(src) \/ C4_Bad(src, res.arg) # {})
    /\ Len(res.arg) > rank(src) => res.err = TooManyDims
    /\ (Len(res.arg) <= rank(src) /\ C4_Bad(src, res.arg) # {}) =>
         \E i \in C4_Bad(src, res.arg) : res.err = OutOfRange(res.arg[i], i - 1)
    /\ ~res.ok => t = src

C4_Step ==
  (pc = "idle" /\ res'.op = "get" /\ ~res'.ok) =>
    /\ t' = t
    /\ src' = t
    /\ heap'[t.data] = heap[t.data]

C4_GetErrors == []C4_State /\ [][C4_Step]_vars

C4_Witness ==
  /\ res.op = "get"
  /\ ~res.ok
  /\ rank(src) = 2
  /\ Len(res.arg) = 2
  /\ res.err = OutOfRange(2, 1)

\* C5: a successful get with k index entries returns a view of the same
\* buffer whose shape and strides are the last rank-k entries of the
\* operand's, whose base_index is the operand's plus sum_{i<k} index[i] *
\* strides[i], and whose size is the product of its shape (1 and rank 0
\* when k = rank); the operand is unchanged.
C5_State ==
  (res.op = "get" /\ res.ok) =>
    LET k == Len(res.arg)
    IN  /\ t.data = src.data
        /\ t.shape = Suffix(src.shape, k)
        /\ t.strides = Suffix(src.strides, k)
        /\ t.base_index = src.base_index + Dot(res.arg, SubSeq(src.strides, 1, k))
        /\ t.size = Product(t.shape)
        /\ k = rank(src) => (t.size = 1 /\ is_scalar(t))

C5_Step ==
  (pc = "idle" /\ res'.op = "get" /\ res'.ok) =>
    /\ src' = t
    /\ heap'[t.data] = heap[t.data]

C5_GetView == []C5_State /\ [][C5_Step]_vars

C5_Witness ==
  /\ res.op = "get"
  /\ res.ok
  /\ rank(src) = 2
  /\ Len(res.arg) = 2
  /\ src.base_index = 2
  /\ t.base_index = 3

\* C6: reshape fails with the shape-mismatch error exactly when the product
\* of the new shape differs from the tensor's size; otherwise it returns a
\* view of the same buffer with the new shape, its row-major strides, the
\* same size and the same base_index; flatten is reshape to [size] and
\* always succeeds; the operand is unchanged.
C6_State ==
  /\ res.op = "reshape" =>
       /\ res.ok <=> Product(res.arg) = src.size
       /\ ~res.ok => (res.err = SizeMismatch /\ t = src)
       /\ res.ok => /\ t.data = src.data
                    /\ t.shape = res.arg
                    /\ IsRowMajor(t.shape, t.strides)
                    /\ t.size = src.size
                    /\ t.base_index = src.base_index
  /\ res.op = "flatten" =>
       /\ res.ok
       /\ t = Tensor(src.data, src.base_index, src.size, <<src.size>>, <<1>>)

C6_Step ==
  (pc = "idle" /\ res'.op \in {"reshape", "flatten"}) =>
    /\ src' = t
    /\ heap'[t.data] = heap[t.data]

C6_Reshape == []C6_State /\ [][C6_Step]_vars

C6_Witness ==
  /\ res.op = "reshape"
  /\ res.ok
  /\ src.base_index = 2
  /\ rank(src) = 1
  /\ rank(t) = 3

\* C7: every tensor whose extents are all >= 1 addresses only offsets inside
\* its buffer: base_index + sum_d (shape[d]-1) * strides[d] < buffer length.
InBounds(x) ==
  x.base_index + Dot([d \in 1..rank(x) |-> x.shape[d] - 1], x.strides)
    < Len(heap[x.data])

C7_InBounds ==
  \A x \in {t, src, it.tensor} :
    (x.data \in DOMAIN heap /\ AllPositive(x.shape)) => InBounds(x)

C7_Witness ==
  /\ res.op = "get"
  /\ res.ok
  /\ rank(src) = 3
  /\ rank(t) = 1
  /\ t.size = 2
  /\ t.base_index = 2
  /\ t.data = 2

\* C8: every tensor carries the calculator's metadata for its own shape:
\* size = product(shape), as many strides as extents, innermost stride 1,
\* and strides[d] = strides[d+1] * shape[d+1].
C8_Metadata ==
  \A x \in {t, src, it.tensor} :
    /\ x.size = Product(x.shape) \/ x = NoTensor
    /\ IsRowMajor(x.shape, x.strides)
    /\ x = NoTensor \/ get_size_and_strides(x.shape) = [size |-> x.size, strides |-> x.strides]

C8_Witness ==
  /\ res.op = "get"
  /\ res.ok
  /\ rank(src) = 3
  /\ rank(t) = 2
  /\ t.base_index = 2

\* C9: rendering a tensor of rank >= 1 and size >= 1 writes, at flat
\* position i, one '[' per dimension d whose multi-index components d..last
\* are all 0 and one ']' per dimension d whose components d..last are all
\* at their maximum; the depth stays >= 1 until the last position and ends
\* at 0; ', ' follows an element exactly when nothing closes, and a newline
\* with depth spaces exactly when something closes and the depth stays
\* positive; [2,2] over 1,2,3,4 renders as "[[1, 2]\n [3, 4]]".
C9_Opens(shape, i) ==
  Cardinality({d \in 1..Len(shape) :
                 \A j \in d..Len(shape) : MultiIndex(shape, i)[j] = 0})

C9_Closes(shape, i) ==
  Cardinality({d \in 1..Len(shape) :
                 \A j \in d..Len(shape) : MultiIndex(shape, i)[j] = shape[j] - 1})

C9_Brackets ==
  (res.op = "fmt" /\ rank(t) >= 1 /\ t.size >= 1) =>
    /\ pc = "returned"
    /\ Len(out.marks) = t.size
    /\ \A i \in 0..(t.size - 1) :
         LET m == out.marks[i + 1]
         IN  /\ m.open = C9_Opens(t.shape, i)
             /\ m.close = C9_Closes(t.shape, i)
             /\ m.depth >= (IF i + 1 = t.size THEN 0 ELSE 1)
             /\ i + 1 = t.size => m.depth = 0
             /\ m.sep <=> m.close = 0
             /\ m.newline <=> (m.close > 0 /\ m.depth > 0)
             /\ m.newline => m.indent = m.depth
    /\ (t.shape = <<2, 2>> /\ heap[t.data] = <<1, 2, 3, 4>>) =>
         out.text = "[[1, 2]\n [3, 4]]"

C9_Witness ==
  /\ res.op = "fmt"
  /\ t.shape = <<2, 2>>
  /\ out.text = "[[1, 2]\n [3, 4]]"

\* C10: over a tensor of rank >= 1 and size 0 the iterator yields nothing,
\* so no element is read outside the buffer.
C10_EmptyYieldsNothing ==
  (Iterating /\ rank(it.tensor) >= 1 /\ it.tensor.size = 0) =>
    /\ Len(yielded) = 0
    /\ pc # "panicked"

====
